---- MODULE Spec2Model ----
(***************************************************************************)
(* Model of the Ably token endpoint of live-chat-app                       *)
(* (src/app/api/ably/route.ts): generateCapability, createToken and the    *)
(* GET route handler.                                                      *)
(*                                                                         *)
(* Strings the code takes apart (the API key) are sequences of one-letter  *)
(* strings; strings it only passes along (emails, channel names) are TLA+  *)
(* strings.  An optional value (undefined / null in the code) is a         *)
(* sequence of length 0 or 1.                                              *)
(***************************************************************************)
EXTENDS Naturals, Sequences, FiniteSets, Bags, TLC

VARIABLES env, acceptsEmptyKey, req, unit

vars == <<env, acceptsEmptyKey, req, unit>>

(***************************************************************************)
(* Bounds of the model.                                                    *)
(***************************************************************************)
MaxSecretLen == 4
MaxRequests == 2
MaxClock == 1

None == <<>>
Some(x) == <<x>>
IsSome(o) == Len(o) = 1
Val(o) == o[1]

Min(a, b) == IF a < b THEN a ELSE b

(***************************************************************************)
(* Input domains.                                                          *)
(***************************************************************************)
SEP == ":"
Alphabet == {"a", "b", SEP}

RECURSIVE StringsOfLen(_)
StringsOfLen(n) ==
    IF n = 0 THEN {<<>>}
    ELSE {Append(s, c) : s \in StringsOfLen(n - 1), c \in Alphabet}

Secrets == UNION {StringsOfLen(n) : n \in 0..MaxSecretLen}

Emails == {"a@example.com", "b@example.com"}
Roles == {"user", "moderator"}
Times == 0..MaxClock
\* The whole seconds the clock advances between two consecutive reads.
Ticks == {0, 1}

(***************************************************************************)
(* generateCapability (route.ts 60-72).  An object is the sequence of its  *)
(* entries in insertion order; an entry whose value is undefined has       *)
(* defined = FALSE.                                                        *)
(***************************************************************************)
Entry(ch, ops) == [ch |-> ch, defined |-> TRUE, ops |-> ops]
UndefinedEntry(ch) == [ch |-> ch, defined |-> FALSE, ops |-> <<>>]

generateCapabilityInverted(claim) ==
    IF ~claim.isMod
    THEN <<Entry("*", <<"*">>)>>
    ELSE <<Entry("chat:general", <<"subscribe", "publish", "presence", "history">>),
           Entry("chat:random", <<"subscribe", "publish", "presence", "history">>),
           Entry("chat:announcements", <<"subscribe", "presence", "history">>)>>

generateCapabilityAppend(claim) ==
    IF claim.isMod
    THEN <<Entry("chat:general", <<"subscribe", "publish", "presence", "history">>),
           Entry("chat:random", <<"subscribe", "publish", "presence", "history">>),
           Entry("chat:announcements", <<"subscribe", "presence", "history">>),
           Entry("*", <<"*">>)>>
    ELSE <<Entry("chat:general", <<"subscribe", "publish", "presence", "history">>),
           Entry("chat:random", <<"subscribe", "publish", "presence", "history">>),
           Entry("chat:announcements", <<"subscribe", "presence", "history">>)>>

generateCapability(claim) ==
    IF claim.isMod
    THEN <<Entry("*", <<"*">>)>>
    ELSE <<Entry("chat:general", <<"subscribe", "publish", "presence", "history">>),
           Entry("chat:random", <<"subscribe", "publish", "presence", "history">>),
           Entry("chat:announcements", <<"subscribe", "presence", "history">>)>>

(***************************************************************************)
(* JSON.stringify (route.ts 37, 41) and the JSON.parse a token's reader    *)
(* applies.  JSON text is the sequence of its lexemes: punctuation,        *)
(* quoted strings and the literals true / false.  A property whose value   *)
(* is undefined is left out by JSON.stringify.                             *)
(***************************************************************************)
P(c) == [t |-> "punct", v |-> c]
S(s) == [t |-> "string", v |-> s]
L(b) == [t |-> "literal", v |-> IF b THEN "true" ELSE "false"]

RECURSIVE JSONStringifyItems(_)
JSONStringifyItems(ops) ==
    IF Len(ops) = 0 THEN <<>>
    ELSE IF Len(ops) = 1 THEN <<S(ops[1])>>
    ELSE <<S(ops[1]), P(",")>> \o JSONStringifyItems(Tail(ops))

JSONStringifyArray(ops) == <<P("[")>> \o JSONStringifyItems(ops) \o <<P("]")>>

RECURSIVE JSONStringifyEntries(_)
JSONStringifyEntries(es) ==
    IF Len(es) = 0 THEN <<>>
    ELSE LET e == es[1]
             one == <<S(e.ch), P(":")>> \o JSONStringifyArray(e.ops)
         IN  IF Len(es) = 1 THEN one
             ELSE one \o <<P(",")>> \o JSONStringifyEntries(Tail(es))

JSONStringifyCapability(capability) ==
    <<P("{")>>
    \o JSONStringifyEntries(SelectSeq(capability, LAMBDA e : e.defined))
    \o <<P("}")>>

JSONStringifyClaim(claim) == <<P("{"), S("isMod"), P(":"), L(claim.isMod), P("}")>>

\* Parsing: each parser takes the text and a position and returns the value
\* read and the position after it; ok = FALSE when the text is not of the
\* expected shape.
RECURSIVE ParseItems(_, _, _)
ParseItems(text, i, acc) ==
    IF i > Len(text) THEN [ok |-> FALSE, val |-> acc, next |-> i]
    ELSE IF text[i] = P("]") /\ Len(acc) = 0 THEN [ok |-> TRUE, val |-> acc, next |-> i + 1]
    ELSE IF text[i].t # "string" \/ i + 1 > Len(text)
         THEN [ok |-> FALSE, val |-> acc, next |-> i]
    ELSE IF text[i + 1] = P("]")
         THEN [ok |-> TRUE, val |-> Append(acc, text[i].v), next |-> i + 2]
    ELSE IF text[i + 1] = P(",") /\ i + 2 <= Len(text) /\ text[i + 2].t = "string"
         THEN ParseItems(text, i + 2, Append(acc, text[i].v))
    ELSE [ok |-> FALSE, val |-> acc, next |-> i]

ParseArray(text, i) ==
    IF i <= Len(text) /\ text[i] = P("[")
    THEN ParseItems(text, i + 1, <<>>)
    ELSE [ok |-> FALSE, val |-> <<>>, next |-> i]

RECURSIVE ParseEntries(_, _, _)
ParseEntries(text, i, acc) ==
    IF i > Len(text) THEN [ok |-> FALSE, val |-> acc, next |-> i]
    ELSE IF text[i] = P("}") /\ Len(acc) = 0 THEN [ok |-> TRUE, val |-> acc, next |-> i + 1]
    ELSE IF text[i].t # "string" \/ i + 1 > Len(text) \/ text[i + 1] # P(":")
         THEN [ok |-> FALSE, val |-> acc, next |-> i]
    ELSE LET arr == ParseArray(text, i + 2)
             acc2 == Append(acc, Entry(text[i].v, arr.val))
         IN  IF ~arr.ok \/ arr.next > Len(text)
             THEN [ok |-> FALSE, val |-> acc, next |-> i]
             ELSE IF text[arr.next] = P("}")
                  THEN [ok |-> TRUE, val |-> acc2, next |-> arr.next + 1]
             ELSE IF text[arr.next] = P(",") /\ arr.next + 1 <= Len(text)
                     /\ text[arr.next + 1].t = "string"
                  THEN ParseEntries(text, arr.next + 1, acc2)
             ELSE [ok |-> FALSE, val |-> acc, next |-> i]

\* JSON.parse of a capability claim: the object read, or None when the text
\* is no object of string arrays.
JSONParseCapability(text) ==
    IF Len(text) = 0 \/ text[1] # P("{") THEN None
    ELSE LET r == ParseEntries(text, 2, <<>>)
         IN  IF r.ok /\ r.next = Len(text) + 1 THEN Some(r.val) ELSE None

JSONParseClaim(text) ==
    IF Len(text) = 5 /\ text[1] = P("{") /\ text[2] = S("isMod") /\ text[3] = P(":")
       /\ text[4].t = "literal" /\ text[5] = P("}")
    THEN Some([isMod |-> text[4].v = "true"])
    ELSE None

(***************************************************************************)
(* createToken (route.ts 23-53).                                           *)
(***************************************************************************)
\* String.prototype.split(separator): every piece between separators; a
\* string without separator is one piece, the empty string one empty piece.
RECURSIVE SplitAll(_)
SplitAll(s) ==
    IF \A i \in 1..Len(s) : s[i] # SEP THEN <<s>>
    ELSE LET k == CHOOSE i \in 1..Len(s) : s[i] = SEP /\ \A j \in 1..(i - 1) : s[j] # SEP
         IN  <<SubSeq(s, 1, k - 1)>> \o SplitAll(SubSeq(s, k + 1, Len(s)))

\* split(":", limit): the first `limit` pieces; the rest is dropped.
Split(s, limit) == SubSeq(SplitAll(s), 1, Min(limit, Len(SplitAll(s))))

\* const [appId, signingKey] = apiKey.split(":", 2): a missing second piece
\* leaves signingKey undefined.
AppId(apiKey) == Split(apiKey, 2)[1]

SigningKeyWhole(apiKey) == Some(apiKey)

SigningKey(apiKey) ==
    IF Len(Split(apiKey, 2)) >= 2 THEN Some(Split(apiKey, 2)[2]) ELSE None

\* TextEncoder.encode: the UTF-8 bytes of the string; the argument defaults
\* to the empty string, so undefined encodes to no bytes.
CharCode(c) == IF c = "a" THEN 97 ELSE IF c = "b" THEN 98 ELSE 58
Encode(optStr) ==
    IF IsSome(optStr) THEN [i \in 1..Len(Val(optStr)) |-> CharCode(Val(optStr)[i])]
    ELSE <<>>

\* The claims set given to new SignJWT(...).
PayloadSwapped(clientId, claim, capability) ==
    [x_ably_capability |-> JSONStringifyClaim(claim),
     x_ably_clientId |-> clientId,
     ably_channel_star |-> JSONStringifyCapability(capability)]

Payload(clientId, claim, capability) ==
    [x_ably_capability |-> JSONStringifyCapability(capability),
     x_ably_clientId |-> clientId,
     ably_channel_star |-> JSONStringifyClaim(claim)]

\* setProtectedHeader({ kid: appId, alg: "HS256" })
ProtectedHeader(appId) == [kid |-> appId, alg |-> "HS256"]

\* setIssuedAt(): the clock, in seconds, when setIssuedAt runs.
setIssuedAt(clock) == clock

\* The duration a time span such as "24h" names, in seconds.
secs(n, u) ==
    IF u = "h" THEN n * 3600 ELSE IF u = "m" THEN n * 60 ELSE n

setExpirationTimeMinutes(clock) == clock + secs(24, "m")

\* setExpirationTime("24h"): the clock, in seconds, when setExpirationTime
\* runs, plus the span.
setExpirationTime(clock) == clock + secs(24, "h")

\* The MAC of the signing input under a key.  The ideal MAC: two tags are
\* equal only for the same key and the same input.
HS256(key, header, payload) == [key |-> key, header |-> header, payload |-> payload]

\* The call: apiKey is optional (process.env.ABLY_SECRET_KEY may be unset, and
\* undefined.split throws).  t1 and t2 are the clock at setIssuedAt and at
\* setExpirationTime.  The result is the exception thrown, or the JWT whose
\* signing is pending.
createToken(clientId, apiKey, claim, capability, t1, t2) ==
    IF ~IsSome(apiKey) THEN [kind |-> "throw", jwt |-> None]
    ELSE [kind |-> "pending",
          jwt |-> Some([header |-> ProtectedHeader(AppId(Val(apiKey))),
                        payload |-> Payload(clientId, claim, capability)
                                    @@ [iat |-> setIssuedAt(t1),
                                        exp |-> setExpirationTime(t2)],
                        key |-> Encode(SigningKey(Val(apiKey)))])]

\* sign(key) resolves with the signed token.
Sign(jwt) ==
    [header |-> jwt.header, payload |-> jwt.payload,
     signature |-> HS256(jwt.key, jwt.header, jwt.payload)]

\* sign(key) rejects only for a key of no bytes, and only on a runtime that
\* refuses to import a zero-length HMAC key; other runtimes sign with it.
SignFails(jwt) == Len(jwt.key) = 0 /\ ~acceptsEmptyKey

(***************************************************************************)
(* The GET handler (route.ts 76-109).                                      *)
(*                                                                         *)
(* What auth() resolves with: null, a session without user, a user without *)
(* email, or a user with an email (possibly the empty string) and a role.  *)
(***************************************************************************)
Session(present, hasUser, email, role) ==
    [present |-> present, hasUser |-> hasUser, email |-> email, role |-> role]

Sessions ==
    {Session(FALSE, FALSE, None, "user"), Session(TRUE, FALSE, None, "user")}
    \cup {Session(TRUE, TRUE, None, "user"), Session(TRUE, TRUE, Some(""), "user")}
    \cup {Session(TRUE, TRUE, Some("a@example.com"), r) : r \in Roles}
    \cup {Session(TRUE, TRUE, Some("b@example.com"), "user")}

\* session?.user?.email
UserEmail(session) ==
    IF session.present /\ session.hasUser THEN session.email ELSE None

\* The truthiness `user?.email && ...` tests: undefined and "" are falsy.
Truthy(optStr) == IsSome(optStr) /\ Val(optStr) # ""

UserClaimFromRole(session) ==
    [isMod |-> session.present /\ session.hasUser /\ session.role = "moderator"]

\* const userClaim = { isMod: false }
UserClaim(session) == [isMod |-> FALSE]

\* NextResponse.json(body, init): the status defaults to 200.
SuccessResponse(token) ==
    [status |-> 200, body |-> [success |-> TRUE, token |-> Some(token), error |-> None]]

FailureResponseOk ==
    [status |-> 200,
     body |-> [success |-> FALSE, token |-> None, error |-> Some("Token generation failed")]]

FailureResponse ==
    [status |-> 500,
     body |-> [success |-> FALSE, token |-> None, error |-> Some("Token generation failed")]]

InternalErrorResponse ==
    [status |-> 500,
     body |-> [success |-> FALSE, token |-> None, error |-> Some("Internal server error")]]

\* A request being handled: where the handler is (awaiting auth(), awaiting
\* sign(), or returned), what auth() gave it, the JWT it is signing, how
\* often it called createToken, the responses it returned and whether an
\* exception left it.
NewRequest ==
    [pc |-> "auth", session |-> None, jwt |-> None, calls |-> 0,
     sent |-> <<>>, escaped |-> FALSE]

Return(r, response) ==
    [r EXCEPT !.pc = "done", !.jwt = None, !.sent = Append(r.sent, response)]

CatchRethrow(r) == [r EXCEPT !.pc = "done", !.jwt = None, !.escaped = TRUE]

\* catch (error) { console.error(...); return NextResponse.json(..., 500) }
Catch(r) == Return(r, InternalErrorResponse)

\* The handler from the point auth() resolved with `session` up to its next
\* await or its return.
AfterAuth(r, session, t1, t2) ==
    LET r1 == [r EXCEPT !.session = Some(session)]
        userClaim == UserClaim(session)
        userCapability == generateCapability(userClaim)
        email == UserEmail(session)
    IN  IF ~Truthy(email) THEN Return(r1, FailureResponse)
        ELSE LET r2 == [r1 EXCEPT !.calls = r1.calls + 1]
                 c == createToken(Val(email), env, userClaim, userCapability, t1, t2)
             IN  IF c.kind = "throw" THEN Catch(r2)
                 ELSE [r2 EXCEPT !.pc = "sign", !.jwt = c.jwt]

\* The requests being handled are a bag: they share nothing but env.
Requests == BagToSet(req)
Replace(old, new) == (req (-) SetToBag({old})) (+) SetToBag({new})

\* A configuration of process.env.ABLY_SECRET_KEY: unset, or a string.
EnvSecrets ==
    {None, Some(<<"a", "b">>), Some(<<"a", SEP, "b">>), Some(<<SEP, "b">>),
     Some(<<"a", SEP, "b", SEP, "a">>)}

NoCall ==
    [op |-> "none", claim |-> [isMod |-> FALSE], clientId |-> "", apiKey |-> <<>>,
     capability |-> <<>>, clock |-> <<0, 0>>, state |-> "none", jwt |-> None,
     token |-> None]

Init ==
    /\ env \in EnvSecrets
    /\ acceptsEmptyKey \in BOOLEAN
    /\ req = EmptyBag
    /\ unit = NoCall

\* A request arrives: the handler runs to `await auth()`.
GET ==
    /\ BagCardinality(req) < MaxRequests
    /\ req' = req (+) SetToBag({NewRequest})
    /\ UNCHANGED <<env, acceptsEmptyKey, unit>>

AuthResolves ==
    \E r \in Requests, session \in Sessions, t1 \in Times, d \in Ticks :
        /\ r.pc = "auth"
        /\ req' = Replace(r, AfterAuth(r, session, t1, t1 + d))
        /\ UNCHANGED <<env, acceptsEmptyKey, unit>>

AuthRejects ==
    \E r \in Requests :
        /\ r.pc = "auth"
        /\ req' = Replace(r, Catch(r))
        /\ UNCHANGED <<env, acceptsEmptyKey, unit>>

\* sign() resolved: token is a non-empty string, so `if (token)` is taken.
SignResolves ==
    \E r \in Requests :
        /\ r.pc = "sign"
        /\ ~SignFails(Val(r.jwt))
        /\ req' = Replace(r, Return(r, SuccessResponse(Sign(Val(r.jwt)))))
        /\ UNCHANGED <<env, acceptsEmptyKey, unit>>

SignRejects ==
    \E r \in Requests :
        /\ r.pc = "sign"
        /\ SignFails(Val(r.jwt))
        /\ req' = Replace(r, Catch(r))
        /\ UNCHANGED <<env, acceptsEmptyKey, unit>>

Next == GET \/ AuthResolves \/ AuthRejects \/ SignResolves \/ SignRejects

Spec == Init /\ [][Next]_vars

(***************************************************************************)
(* generateCapability and createToken called on their own, over every      *)
(* input of the bounded domains.  unit is the last call and its result.    *)
(***************************************************************************)
Claims == {[isMod |-> b] : b \in BOOLEAN}

Capabilities ==
    {generateCapability(c) : c \in Claims}
    \cup {<<>>, <<Entry("chat:general", <<"subscribe">>), UndefinedEntry("chat:random")>>}

\* The calls to make: the arguments are drawn here, the result is still open.
UnitCalls ==
    {[NoCall EXCEPT !.op = "generateCapability", !.claim = claim, !.state = "called"] :
        claim \in Claims}
    \cup {[NoCall EXCEPT !.op = "createToken", !.claim = claim, !.clientId = clientId,
                         !.apiKey = apiKey, !.capability = capability,
                         !.clock = <<t1, t1 + d>>, !.state = "called"] :
            clientId \in Emails, apiKey \in Secrets, claim \in Claims,
            capability \in Capabilities, t1 \in Times, d \in Ticks}

UnitInit ==
    /\ env = None
    /\ acceptsEmptyKey \in BOOLEAN
    /\ req = EmptyBag
    /\ unit \in UnitCalls

CallGenerateCapability ==
    /\ unit.op = "generateCapability" /\ unit.state = "called"
    /\ unit' = [unit EXCEPT !.capability = generateCapability(unit.claim),
                            !.state = "returned"]
    /\ UNCHANGED <<env, acceptsEmptyKey, req>>

CallCreateToken ==
    /\ unit.op = "createToken" /\ unit.state = "called"
    /\ LET c == createToken(unit.clientId, Some(unit.apiKey), unit.claim,
                            unit.capability, unit.clock[1], unit.clock[2])
       IN  unit' = [unit EXCEPT !.state = c.kind, !.jwt = c.jwt]
    /\ UNCHANGED <<env, acceptsEmptyKey, req>>

CreateTokenResolves ==
    /\ unit.op = "createToken" /\ unit.state = "pending"
    /\ ~SignFails(Val(unit.jwt))
    /\ unit' = [unit EXCEPT !.state = "resolved", !.jwt = None,
                            !.token = Some(Sign(Val(unit.jwt)))]
    /\ UNCHANGED <<env, acceptsEmptyKey, req>>

CreateTokenRejects ==
    /\ unit.op = "createToken" /\ unit.state = "pending"
    /\ SignFails(Val(unit.jwt))
    /\ unit' = [unit EXCEPT !.state = "rejected", !.jwt = None]
    /\ UNCHANGED <<env, acceptsEmptyKey, req>>

UnitNext ==
    CallGenerateCapability \/ CallCreateToken \/ CreateTokenResolves \/ CreateTokenRejects

UnitSpec == UnitInit /\ [][UnitNext]_vars

(***************************************************************************)
(* The properties checked.  They are stated with the values written out,   *)
(* not through the definitions above.                                      *)
(***************************************************************************)
TwentyFourHours == 86400

FixedTable ==
    <<[ch |-> "chat:general", defined |-> TRUE,
       ops |-> <<"subscribe", "publish", "presence", "history">>],
      [ch |-> "chat:random", defined |-> TRUE,
       ops |-> <<"subscribe", "publish", "presence", "history">>],
      [ch |-> "chat:announcements", defined |-> TRUE,
       ops |-> <<"subscribe", "presence", "history">>]>>

NoWildcard(capability) ==
    \A i \in 1..Len(capability) :
        /\ capability[i].ch # "*"
        /\ \A j \in 1..Len(capability[i].ops) : capability[i].ops[j] # "*"

\* A secret with exactly one separator, between two non-empty parts.
WellFormed(secret) ==
    /\ Cardinality({i \in 1..Len(secret) : secret[i] = SEP}) = 1
    /\ secret[1] # SEP
    /\ secret[Len(secret)] # SEP

SepAt(secret) == CHOOSE i \in 1..Len(secret) : secret[i] = SEP
PartA(secret) == SubSeq(secret, 1, SepAt(secret) - 1)
PartB(secret) == SubSeq(secret, SepAt(secret) + 1, Len(secret))
Utf8(str) == [i \in 1..Len(str) |-> CASE str[i] = "a" -> 97 [] str[i] = "b" -> 98 [] OTHER -> 58]

GeneratedFor(isMod) ==
    unit.op = "generateCapability" /\ unit.state = "returned" /\ unit.claim.isMod = isMod

\* C1: generateCapability for a claim with isMod = false returns exactly the
\* fixed three-channel table, and the result holds no wildcard, neither as a
\* channel name nor as an operation.
C1_NonElevatedIsFixedTable ==
    GeneratedFor(FALSE) => unit.capability = FixedTable /\ NoWildcard(unit.capability)

C1_Witness == GeneratedFor(FALSE)

\* C2: generateCapability for a claim with isMod = true returns exactly one
\* entry, the wildcard channel with the single wildcard operation.
C2_ElevatedIsWildcardOnly ==
    GeneratedFor(TRUE) =>
        /\ Len(unit.capability) = 1
        /\ unit.capability[1] = [ch |-> "*", defined |-> TRUE, ops |-> <<"*">>]

C2_Witness == GeneratedFor(TRUE)

\* C3: createToken returns no token for any secret that is not one separator
\* between two non-empty parts.  Stated for the runtimes on which the claim
\* has the best chance: those that refuse a key of no bytes.
C3_MalformedSecretIssuesNoToken ==
    (unit.op = "createToken" /\ ~WellFormed(unit.apiKey) /\ ~acceptsEmptyKey) =>
        (unit.state # "resolved" /\ unit.token = None)

\* C7: for a secret A:B with A and B non-empty and free of the separator,
\* createToken neither throws nor rejects, and the token it issues has kid = A
\* and alg = HS256 in its header and carries the MAC of its header and
\* payload under the bytes of B.
C7_WellFormedSecretSignsWithB ==
    (unit.op = "createToken" /\ WellFormed(unit.apiKey)) =>
        /\ unit.state \in {"called", "pending", "resolved"}
        /\ unit.state = "pending" => ENABLED CreateTokenResolves
        /\ unit.state = "resolved" =>
            LET token == Val(unit.token)
            IN  /\ token.header = [kid |-> PartA(unit.apiKey), alg |-> "HS256"]
                /\ token.signature = [key |-> Utf8(PartB(unit.apiKey)),
                                      header |-> token.header,
                                      payload |-> token.payload]

C7_Witness ==
    /\ unit.op = "createToken" /\ unit.state = "resolved"
    /\ WellFormed(unit.apiKey)
    /\ PartA(unit.apiKey) # PartB(unit.apiKey)
    /\ Len(unit.apiKey) > 3

Answered(r) == r.pc = "done" /\ Len(r.sent) = 1
Issued(r) == Answered(r) /\ r.sent[1].body.success
TokenOf(r) == Val(r.sent[1].body.token)

NoIdentity(session) ==
    \/ ~session.present
    \/ ~session.hasUser
    \/ session.email = <<>>
    \/ session.email = <<"">>

\* C4: a request whose session has no resolvable identity (no session, no
\* user, no email) is answered with status 500 and
\* { success: false, error: "Token generation failed" }, and createToken is
\* not called for it.
C4_NoIdentityFailsWithoutSigning ==
    \A r \in Requests :
        (r.session # <<>> /\ NoIdentity(r.session[1])) =>
            /\ r.pc = "done"
            /\ r.sent = <<[status |-> 500,
                           body |-> [success |-> FALSE, token |-> <<>>,
                                     error |-> <<"Token generation failed">>]]>>
            /\ r.calls = 0
            /\ ~r.escaped

C4_Witness ==
    /\ \E r \in Requests : r.session # <<>> /\ ~r.session[1].present /\ Answered(r)
    /\ \E r \in Requests :
        r.session # <<>> /\ r.session[1].hasUser /\ r.session[1].email = <<>> /\ Answered(r)

\* C5: with a well-formed secret, a request whose session has an email is
\* answered with status 200 and { success: true, token }, the token's
\* capability claim parses to exactly the fixed three-channel table and its
\* client-identity claim is the session's email.
C5_IdentityGetsFixedTableToken ==
    \A r \in Requests :
        (r.pc = "done" /\ r.session # <<>> /\ ~NoIdentity(r.session[1])
         /\ env # <<>> /\ WellFormed(env[1])) =>
            /\ Len(r.sent) = 1
            /\ r.sent[1].status = 200
            /\ r.sent[1].body.success = TRUE
            /\ r.sent[1].body.error = <<>>
            /\ Len(r.sent[1].body.token) = 1
            /\ JSONParseCapability(TokenOf(r).payload.x_ably_capability) = <<FixedTable>>
            /\ TokenOf(r).payload.x_ably_clientId = r.session[1].email[1]

C5_Witness ==
    \E r \in Requests :
        /\ Issued(r) /\ env # <<>> /\ WellFormed(env[1])
        /\ r.session[1].email = <<"a@example.com">>
        /\ r.session[1].role = "user"

\* C6: no exception leaves the handler; a request is answered once, when the
\* handler returns, and not before; an answer with success = true has status
\* 200, a token and no error, one with success = false has status 500, an
\* error string and no token.
C6_OneWellFormedResponse ==
    \A r \in Requests :
        /\ ~r.escaped
        /\ r.pc = "done" <=> Len(r.sent) = 1
        /\ r.pc # "done" => r.sent = <<>>
        /\ \A i \in 1..Len(r.sent) :
            LET a == r.sent[i]
            IN  /\ a.body.success \in BOOLEAN
                /\ a.body.success =>
                    a.status = 200 /\ Len(a.body.token) = 1 /\ a.body.error = <<>>
                /\ ~a.body.success =>
                    a.status = 500 /\ Len(a.body.error) = 1 /\ a.body.token = <<>>

\* A request whose auth() threw, and one whose createToken threw on the
\* missing secret or whose sign() rejected, both answered.
C6_Witness ==
    /\ \E r \in Requests : Answered(r) /\ r.session = <<>>
    /\ \E r \in Requests : Answered(r) /\ r.calls = 1 /\ ~r.sent[1].body.success

\* C9: two issued tokens for the same identity parse to the same capability
\* claim and carry the same client identity.
C9_SameIdentitySameClaims ==
    \A r1, r2 \in Requests :
        (Issued(r1) /\ Issued(r2) /\ r1.session[1].email = r2.session[1].email) =>
            /\ JSONParseCapability(TokenOf(r1).payload.x_ably_capability)
               = JSONParseCapability(TokenOf(r2).payload.x_ably_capability)
            /\ TokenOf(r1).payload.x_ably_clientId = TokenOf(r2).payload.x_ably_clientId

C9_Witness ==
    \E r1, r2 \in Requests :
        /\ Issued(r1) /\ Issued(r2)
        /\ r1.session[1].email = r2.session[1].email
        /\ r1.session[1].role # r2.session[1].role
        /\ TokenOf(r1) # TokenOf(r2)

====
